---- MODULE Spec2Model ----
(***************************************************************************)
(* Model of jenkins-mcp: the Tool Gateway (mcp-server/main.go) and the     *)
(* Prompt Bridge (mcp-client/main.go).                                     *)
(*                                                                         *)
(* Text is a sequence of runs: n copies of a chunk (a short string).  Every *)
(* character the code inspects on its own (space, braces, quotes, digits,  *)
(* '?', '#', the words True/False/None) is a chunk of its own, so that the *)
(* string operations of the code (Index, LastIndex, SplitN, ReplaceAll,    *)
(* Atoi, URL parsing, slicing) are computed on the text and not assumed.   *)
(***************************************************************************)
EXTENDS Integers, Sequences, FiniteSets, TLC

VARIABLES
    jc,          \* Gateway: the JenkinsClient main constructs, [User, Token]
    gwPc,        \* Gateway: "idle" awaiting a request, "replied" once answered
    gwTool,      \* Gateway: name of the tool last invoked ("" before any)
    gwArgs,      \* Gateway: req.Params.Arguments of that invocation
    gwBackend,   \* Gateway: what the backend answered to that invocation
    gwRequests,  \* Gateway: HTTP requests that invocation sent, in order
    gwResult,    \* Gateway: the CallToolResult the handler returned
    pc,          \* Bridge: where main is
    history,     \* Bridge: the conversation, a sequence of Messages
    linesRead,   \* Bridge: input lines read so far
    histBefore,  \* Bridge: the history when the current line was read
    llmReply,    \* Bridge: the model's reply to the current line
    toolCall,    \* Bridge: what parseToolCall made of llmReply
    toolText,    \* Bridge: the flattened console log of analyze_logs
    turnCalls,   \* Bridge: CallTool requests sent for the current line
    reported,    \* Bridge: failures printed for the current line
    workerPc,    \* Bridge: where the goroutine running mcpClient.Start is
    startResult, \* Bridge: what mcpClient.Start returned ("pending" before)
    ready,       \* Bridge: the values buffered in the channel ready
    inFlight     \* Bridge: the calls issued and not yet returned, in order

gwVars == <<jc, gwPc, gwTool, gwArgs, gwBackend, gwRequests, gwResult>>

startVars == <<workerPc, startResult, ready>>

brVars == <<pc, history, linesRead, histBefore, llmReply, toolCall, toolText,
            turnCalls, reported, startVars, inFlight>>

vars == <<gwVars, brVars>>

----------------------------------------------------------------------------
(* Bounds *)

\* Largest build number drawn as an input.
MaxBuild == 12

\* Input lines the Bridge reads before its input ends.
MaxLines == 2

----------------------------------------------------------------------------
(* Text helpers *)

\* n copies of the unit s, which takes `bytes` bytes and shows as `chars`
\* characters
Run(s, bytes, chars, n) == [s |-> s, bytes |-> bytes, chars |-> chars, n |-> n]

\* the text of one ASCII chunk
T(s) == <<Run(s, Len(s), Len(s), 1)>>

RECURSIVE Txt(_)
\* the text of a sequence of ASCII chunks
Txt(chunks) == IF chunks = <<>> THEN <<>> ELSE T(Head(chunks)) \o Txt(Tail(chunks))

\* the first chunk of a text
H(txt) == Head(txt).s

RECURSIVE IndexFrom(_, _, _)
\* strings.Index: first position >= i holding chunk c, 0 when there is none
IndexFrom(txt, c, i) ==
    IF i > Len(txt) THEN 0
    ELSE IF txt[i].s = c THEN i
    ELSE IndexFrom(txt, c, i + 1)

Index(txt, c) == IndexFrom(txt, c, 1)

RECURSIVE LastIndexFrom(_, _, _)
\* strings.LastIndex: last position <= i holding chunk c, 0 when none
LastIndexFrom(txt, c, i) ==
    IF i < 1 THEN 0
    ELSE IF txt[i].s = c THEN i
    ELSE LastIndexFrom(txt, c, i - 1)

LastIndex(txt, c) == LastIndexFrom(txt, c, Len(txt))

Digits == <<"0", "1", "2", "3", "4", "5", "6", "7", "8", "9">>

IsDigit(c) == \E d \in 1..10 : Digits[d] = c

DigitVal(c) == (CHOOSE d \in 1..10 : Digits[d] = c) - 1

RECURSIVE ItoaNat(_)
ItoaNat(n) ==
    IF n < 10 THEN T(Digits[n + 1])
    ELSE ItoaNat(n \div 10) \o T(Digits[(n % 10) + 1])

\* fmt's %d / strconv.Itoa
Itoa(n) == IF n < 0 THEN T("-") \o ItoaNat(0 - n) ELSE ItoaNat(n)

RECURSIVE DigitsValue(_, _)
\* value of a run of digit chunks, acc is the value read so far
DigitsValue(txt, acc) ==
    IF txt = <<>> THEN acc
    ELSE DigitsValue(Tail(txt), acc * 10 + DigitVal(H(txt)))

AllDigits(txt) == txt # <<>> /\ \A i \in 1..Len(txt) : IsDigit(txt[i].s)

\* strconv.Atoi: optional sign then digits only; anything else is an error
Atoi(txt) ==
    LET signed == txt # <<>> /\ H(txt) \in {"-", "+"}
        body   == IF signed THEN Tail(txt) ELSE txt
    IN  IF ~AllDigits(body) THEN [ok |-> FALSE, n |-> 0]
        ELSE [ok |-> TRUE,
              n  |-> IF signed /\ H(txt) = "-"
                     THEN 0 - DigitsValue(body, 0)
                     ELSE DigitsValue(body, 0)]

----------------------------------------------------------------------------
(* Go values of type any, as the handlers see them *)

StrV(txt)   == [t |-> "string", s |-> txt]
IntV(n)     == [t |-> "int", i |-> n]
\* a float64 with value m / 10^e, in lowest terms (42.0 and 42 are one value)
FloatV(m, e) == [t |-> "float64", m |-> m, e |-> e]
BoolV(b)    == [t |-> "bool", b |-> b]
NilV        == [t |-> "nil"]
MapV(f)     == [t |-> "map", m |-> f]

RECURSIVE Pow10(_)
Pow10(e) == IF e = 0 THEN 1 ELSE 10 * Pow10(e - 1)

\* Go's int(v) on a float64: truncation toward zero
FloatToInt(v) ==
    LET p == Pow10(v.e)
    IN  IF v.m >= 0 THEN v.m \div p ELSE 0 - ((0 - v.m) \div p)

\* fmt.Sprint(v)
Sprint(v) ==
    CASE v.t = "string"  -> v.s
      [] v.t = "int"     -> Itoa(v.i)
      [] v.t = "float64" ->
            IF v.e = 0 THEN Itoa(v.m)
            ELSE (IF v.m < 0 THEN T("-") ELSE <<>>)
                 \o ItoaNat((IF v.m < 0 THEN 0 - v.m ELSE v.m) \div Pow10(v.e))
                 \o T(".")
                 \o ItoaNat((IF v.m < 0 THEN 0 - v.m ELSE v.m) % Pow10(v.e))
      [] v.t = "bool"    -> IF v.b THEN T("true") ELSE T("false")
      [] v.t = "nil"     -> T("<nil>")
      [] OTHER           -> T("map[...]")

----------------------------------------------------------------------------
(* The backend HTTP exchange: JenkinsClient.do *)

RECURSIVE SplitOn(_, _)
\* strings.Split on a one-chunk separator
SplitOn(txt, c) ==
    LET i == Index(txt, c)
    IN  IF i = 0 THEN <<txt>>
        ELSE <<SubSeq(txt, 1, i - 1)>> \o SplitOn(SubSeq(txt, i + 1, Len(txt)), c)

\* net/url as http.NewRequest applies it to Base+path: the fragment is cut
\* at the first '#', then the query is what follows the first '?'
ParseURL(path) ==
    LET h      == Index(path, "#")
        noFrag == IF h = 0 THEN path ELSE SubSeq(path, 1, h - 1)
        q      == Index(noFrag, "?")
    IN  [path     |-> IF q = 0 THEN noFrag ELSE SubSeq(noFrag, 1, q - 1),
         rawQuery |-> IF q = 0 THEN <<>> ELSE SubSeq(noFrag, q + 1, Len(noFrag))]

RECURSIVE QueryOfPairs(_)
\* url.ParseQuery over the "&"-separated pairs: key -> list of values
QueryOfPairs(pairs) ==
    IF pairs = <<>> THEN <<>>
    ELSE LET rest == QueryOfPairs(Tail(pairs))
             p    == Head(pairs)
             e    == Index(p, "=")
             k    == IF e = 0 THEN p ELSE SubSeq(p, 1, e - 1)
             v    == IF e = 0 THEN <<>> ELSE SubSeq(p, e + 1, Len(p))
         IN  IF p = <<>> THEN rest
             ELSE IF k \in DOMAIN rest
                  THEN [rest EXCEPT ![k] = <<v>> \o @]
                  ELSE (k :> <<v>>) @@ rest

URLQuery(rawQuery) ==
    IF rawQuery = <<>> THEN <<>> ELSE QueryOfPairs(SplitOn(rawQuery, "&"))

\* for k, v := range params { q.Set(k, v) }
SetAll(q, params) ==
    [k \in (DOMAIN q) \cup (DOMAIN params) |->
        IF k \in DOMAIN params THEN <<params[k]>> ELSE q[k]]

NoParams == <<>>

StatusIsError(status) == status >= 400

\* One call of http.DefaultClient.Do; backend is what the network and the
\* CI server answer to it.
\* the Authorization of a request: req.SetBasicAuth(jc.User, jc.Token) or none
NoAuth == [basic |-> FALSE, username |-> <<>>, password |-> <<>>]

BasicAuth(username, password) ==
    [basic |-> TRUE, username |-> username, password |-> password]

Authorization(client) ==
    IF client.User # <<>> \/ client.Token # <<>>
    THEN BasicAuth(client.User, client.Token)
    ELSE NoAuth

do(method, path, params, backend) ==
    LET u   == ParseURL(path)
        req == [method |-> method,
                auth   |-> Authorization(jc),
                path   |-> u.path,
                query  |-> SetAll(URLQuery(u.rawQuery), params)]
    IN  IF backend.kind # "http"
        THEN [reqs |-> <<req>>, ok |-> FALSE, data |-> <<>>, err |-> backend.err]
        ELSE IF StatusIsError(backend.status)
        THEN [reqs |-> <<req>>, ok |-> FALSE, data |-> <<>>,
              err  |-> T("jenkins error: status=") \o Itoa(backend.status)
                       \o T(" body=") \o backend.body]
        ELSE [reqs |-> <<req>>, ok |-> TRUE, data |-> backend.body, err |-> <<>>]

BuildPath(jobName) == T("/job/") \o jobName \o T("/build")

BuildWithParametersPath(jobName) == T("/job/") \o jobName \o T("/buildWithParameters")

Cardinal(f) == Cardinality(DOMAIN f)

TriggerJob(jobName, params, backend) ==
    LET path == IF Cardinal(params) > 0
                THEN BuildWithParametersPath(jobName)
                ELSE BuildPath(jobName)
        r    == do("POST", path, params, backend)
    IN  IF ~r.ok
        THEN [r EXCEPT !.err = T("failed to trigger job: ") \o r.err]
        ELSE r

----------------------------------------------------------------------------
(* Tool results *)

NewToolResultError(txt) == [kind |-> "error", text |-> txt]
NewToolResultText(txt)  == [kind |-> "text", text |-> txt]
NewToolResultStructuredOnly(v) == [kind |-> "structured", value |-> v]

NoResult == [kind |-> "none"]

IsString(args, k) == k \in DOMAIN args /\ args[k].t = "string"

\* v, _ := args[k].(string): the zero value "" when absent or not a string
StringOrZero(args, k) == IF IsString(args, k) THEN args[k].s ELSE <<>>

JobNameKey == T("job_name")
ParametersKey == T("parameters")
BuildNumberKey == T("build_number")

\* the trigger_job handler
TriggerJobHandler(args, backend) ==
    LET jobNameVal == StringOrZero(args, JobNameKey)
        p      == IF ParametersKey \in DOMAIN args /\ args[ParametersKey].t = "map"
                  THEN args[ParametersKey].m ELSE <<>>
        params == [k \in DOMAIN p |-> Sprint(p[k])]
        r      == TriggerJob(jobNameVal, params, backend)
    IN  IF ~IsString(args, JobNameKey) \/ jobNameVal = <<>>
        THEN [reqs |-> <<>>, result |-> NewToolResultError(T("job_name is required"))]
        ELSE IF ~r.ok
        THEN [reqs |-> r.reqs, result |-> NewToolResultError(r.err)]
        ELSE [reqs |-> r.reqs, result |-> NewToolResultText(T("job triggered successfully!"))]

----------------------------------------------------------------------------
(* encoding/json: json.Unmarshal over a text of JSON tokens *)

IsSpace(c) == c \in {" ", "\n", "\t"}

RECURSIVE SkipWS(_)
SkipWS(txt) ==
    IF txt # <<>> /\ IsSpace(H(txt)) THEN SkipWS(Tail(txt)) ELSE txt

Fail == [ok |-> FALSE, v |-> NilV, rest |-> <<>>]

Got(v, rest) == [ok |-> TRUE, v |-> v, rest |-> rest]

RECURSIVE DigitRun(_)
\* length of the run of digit chunks txt starts with
DigitRun(txt) ==
    IF txt # <<>> /\ IsDigit(H(txt)) THEN 1 + DigitRun(Tail(txt)) ELSE 0

RECURSIVE Lowest(_, _)
\* m / 10^e without trailing zeros in the fraction
Lowest(m, e) == IF e > 0 /\ m % 10 = 0 THEN Lowest(m \div 10, e - 1) ELSE FloatV(m, e)

\* a JSON number: -? (0 | [1-9][0-9]*) ( . [0-9]+ )?   (no exponent is drawn)
ParseNumber(txt) ==
    LET neg  == txt # <<>> /\ H(txt) = "-"
        t1   == IF neg THEN Tail(txt) ELSE txt
        n    == DigitRun(t1)
        ip   == SubSeq(t1, 1, n)
        t2   == SubSeq(t1, n + 1, Len(t1))
        dot  == t2 # <<>> /\ H(t2) = "."
        k    == IF dot THEN DigitRun(Tail(t2)) ELSE 0
        fp   == IF dot THEN SubSeq(t2, 2, k + 1) ELSE <<>>
        rest == IF dot THEN SubSeq(t2, k + 2, Len(t2)) ELSE t2
        mag  == DigitsValue(ip \o fp, 0)
    IN  IF n = 0 \/ (n > 1 /\ H(ip) = "0") \/ (dot /\ k = 0) THEN Fail
        ELSE Got(Lowest(IF neg THEN 0 - mag ELSE mag, k), rest)

\* a JSON string: the chunks between two quote chunks (no escapes are drawn)
ParseString(txt) ==
    LET close == Index(Tail(txt), "\"")
    IN  IF txt = <<>> \/ H(txt) # "\"" \/ close = 0 THEN Fail
        ELSE Got(StrV(SubSeq(txt, 2, close)), SubSeq(txt, close + 2, Len(txt)))

RECURSIVE ParseValue(_)
RECURSIVE ParseMembers(_, _)

\* the members of an object after '{' or ','; acc is the map read so far
\* (a repeated key keeps its last value)
ParseMembers(txt, acc) ==
    LET k   == ParseString(SkipWS(txt))
        t1  == SkipWS(k.rest)
        v   == ParseValue(Tail(t1))
        t2  == SkipWS(v.rest)
        m   == (k.v.s :> v.v) @@ acc
    IN  IF ~k.ok \/ t1 = <<>> \/ H(t1) # ":" THEN Fail
        ELSE IF ~v.ok \/ t2 = <<>> THEN Fail
        ELSE IF H(t2) = "}" THEN Got(MapV(m), Tail(t2))
        ELSE IF H(t2) = "," THEN ParseMembers(Tail(t2), m)
        ELSE Fail

ParseValue(txt) ==
    LET t == SkipWS(txt)
    IN  IF t = <<>> THEN Fail
        ELSE CASE H(t) = "\""    -> ParseString(t)
               [] H(t) = "true"  -> Got(BoolV(TRUE), Tail(t))
               [] H(t) = "false" -> Got(BoolV(FALSE), Tail(t))
               [] H(t) = "null"  -> Got(NilV, Tail(t))
               [] H(t) = "{"     ->
                    LET t1 == SkipWS(Tail(t))
                    IN  IF t1 # <<>> /\ H(t1) = "}"
                        THEN Got(MapV(<<>>), Tail(t1))
                        ELSE ParseMembers(Tail(t), <<>>)
               [] H(t) = "-" \/ IsDigit(H(t)) -> ParseNumber(t)
               [] OTHER -> Fail

\* the document is the value r and nothing but blanks after it
WholeDocument(r) ==
    IF r.ok /\ SkipWS(r.rest) = <<>> THEN [ok |-> TRUE, v |-> r.v]
    ELSE [ok |-> FALSE, v |-> NilV]

\* json.Unmarshal(data, &v) with v of type any: one value, then only blanks
UnmarshalAny(txt) == WholeDocument(ParseValue(txt))

\* the decoded document r stored into a map[string]any
IntoMap(r) ==
    IF r.ok /\ r.v.t = "map" THEN [ok |-> TRUE, m |-> r.v.m]
    ELSE IF r.ok /\ r.v.t = "nil" THEN [ok |-> TRUE, m |-> <<>>]
    ELSE [ok |-> FALSE, m |-> <<>>]

\* json.Unmarshal(data, &m) with m of type map[string]any: an object, or
\* null (which leaves the map nil)
UnmarshalMap(txt) == IntoMap(UnmarshalAny(txt))

----------------------------------------------------------------------------
(* Console text *)

\* what is left of a multi-byte character cut after its k-th byte
Stray(s, k) == Run(IF s = "U+00E9" THEN "0xC3" ELSE "0x??", k, 1, 1)

RECURSIVE ByteLen(_)
\* Go's len(string)
ByteLen(log) ==
    IF log = <<>> THEN 0 ELSE Head(log).bytes * Head(log).n + ByteLen(Tail(log))

RECURSIVE CharLen(_)
\* number of characters (runes) of the text
CharLen(log) ==
    IF log = <<>> THEN 0 ELSE Head(log).chars * Head(log).n + CharLen(Tail(log))

RECURSIVE TakeBytes(_, _)
\* Go's s[:k] on a string: the first k bytes, wherever that cuts
TakeBytes(log, k) ==
    IF k = 0 \/ log = <<>> THEN <<>>
    ELSE LET r     == Head(log)
             whole == k \div r.bytes
             part  == k % r.bytes
         IN  IF r.bytes * r.n <= k
             THEN <<r>> \o TakeBytes(Tail(log), k - r.bytes * r.n)
             ELSE (IF whole > 0 THEN <<[r EXCEPT !.n = whole]>> ELSE <<>>)
                  \o (IF part > 0 THEN <<Stray(r.s, part)>> ELSE <<>>)

RECURSIVE TakeChars(_, _)
\* the first k characters of a text of whole characters
TakeChars(log, k) ==
    IF k = 0 \/ log = <<>> THEN <<>>
    ELSE LET r == Head(log)
         IN  IF r.chars * r.n <= k
             THEN <<r>> \o TakeChars(Tail(log), k - r.chars * r.n)
             ELSE <<[r EXCEPT !.n = k \div r.chars]>>

MaxLogLen == 100000

TruncationMarker == T("\n...(truncated)")

Truncate(logText) ==
    IF ByteLen(logText) > MaxLogLen
    THEN TakeBytes(logText, MaxLogLen) \o TruncationMarker
    ELSE logText

----------------------------------------------------------------------------
(* The get_build_status and get_console_log handlers *)

LastBuildPath(jobName) == T("/job/") \o jobName \o T("/lastBuild/api/json")

ConsolePath(jobName, n) ==
    T("/job/") \o jobName \o T("/") \o Itoa(n) \o T("/consoleText")

\* a slip: a body that is not JSON is answered with an error result
GetBuildStatusHandlerStrict(args, backend) ==
    LET jobNameVal == StringOrZero(args, JobNameKey)
        r      == do("GET", LastBuildPath(jobNameVal), NoParams, backend)
        parsed == UnmarshalAny(r.data)
    IN  IF ~r.ok
        THEN [reqs |-> r.reqs, result |-> NewToolResultError(r.err)]
        ELSE IF ~parsed.ok
        THEN [reqs |-> r.reqs, result |-> NewToolResultError(T("invalid JSON"))]
        ELSE [reqs |-> r.reqs, result |-> NewToolResultStructuredOnly(parsed.v)]

GetBuildStatusHandler(args, backend) ==
    LET jobNameVal == StringOrZero(args, JobNameKey)
        r      == do("GET", LastBuildPath(jobNameVal), NoParams, backend)
        parsed == UnmarshalAny(r.data)
    IN  IF ~r.ok
        THEN [reqs |-> r.reqs, result |-> NewToolResultError(r.err)]
        ELSE IF ~parsed.ok
        THEN [reqs |-> r.reqs, result |-> NewToolResultText(r.data)]
        ELSE [reqs |-> r.reqs, result |-> NewToolResultStructuredOnly(parsed.v)]

\* a slip: the switch has no case for a string
BuildNumberWithoutStrings(args) ==
    LET val == args[BuildNumberKey]
    IN  IF BuildNumberKey \notin DOMAIN args
        THEN [ok |-> FALSE, n |-> 0, err |-> T("missing build_number")]
        ELSE CASE val.t = "int"     -> [ok |-> TRUE, n |-> val.i, err |-> <<>>]
               [] val.t = "float64" -> [ok |-> TRUE, n |-> FloatToInt(val), err |-> <<>>]
               [] OTHER -> [ok |-> FALSE, n |-> 0, err |-> T("invalid build_number type")]

\* the switch on the type of build_number
BuildNumber(args) ==
    LET val == args[BuildNumberKey]
    IN  IF BuildNumberKey \notin DOMAIN args
        THEN [ok |-> FALSE, n |-> 0, err |-> T("missing build_number")]
        ELSE CASE val.t = "int"     -> [ok |-> TRUE, n |-> val.i, err |-> <<>>]
               [] val.t = "float64" -> [ok |-> TRUE, n |-> FloatToInt(val), err |-> <<>>]
               [] val.t = "string"  ->
                    IF Atoi(val.s).ok
                    THEN [ok |-> TRUE, n |-> Atoi(val.s).n, err |-> <<>>]
                    ELSE [ok |-> FALSE, n |-> 0, err |-> T("invalid build_number string")]
               [] OTHER -> [ok |-> FALSE, n |-> 0, err |-> T("invalid build_number type")]

GetConsoleLogHandler(args, backend) ==
    LET jobNameVal == StringOrZero(args, JobNameKey)
        bn == BuildNumber(args)
        r  == do("GET", ConsolePath(jobNameVal, bn.n), NoParams, backend)
    IN  IF ~bn.ok
        THEN [reqs |-> <<>>, result |-> NewToolResultError(bn.err)]
        ELSE IF ~r.ok
        THEN [reqs |-> r.reqs, result |-> NewToolResultError(r.err)]
        ELSE [reqs |-> r.reqs, result |-> NewToolResultText(Truncate(r.data))]

----------------------------------------------------------------------------
(* Inputs of the Gateway *)

\* job names: none, a plain one, and ones holding a URL delimiter
JobNames == {<<>>, T("demo-job"), Txt(<<"a", "?", "b">>), Txt(<<"a", "#", "b">>)}

PlainJobNames == {n \in JobNames : n # <<>> /\ Index(n, "?") = 0 /\ Index(n, "#") = 0}

BuildNumbers == {-1, 0, 7, MaxBuild}

\* the values a job_name argument is drawn from
JobNameValues == {StrV(n) : n \in JobNames} \cup {FloatV(7, 0), NilV}

\* the values a build_number argument is drawn from
BuildNumberValues ==
    {IntV(n) : n \in BuildNumbers}
    \cup {FloatV(n, 0) : n \in BuildNumbers}
    \cup {StrV(Itoa(n)) : n \in BuildNumbers}
    \cup {FloatV(75, 1), FloatV(-15, 1)}
    \cup {StrV(T("abc")), StrV(Txt(<<"7", ".", "0">>)), StrV(<<>>), StrV(Txt(<<" ", "7">>)),
          BoolV(TRUE), NilV}

ParamKeys == {T("BRANCH"), T("DRY_RUN")}

ParamValues == {StrV(T("main")), StrV(<<>>), FloatV(7, 0), BoolV(TRUE)}

\* the values a parameters argument is drawn from
ParametersValues ==
    {MapV(<<>>), StrV(T("BRANCH=main"))}
    \cup {MapV(f) : f \in UNION {[ks -> ParamValues] : ks \in (SUBSET ParamKeys) \ {{}}}}

\* all argument maps holding some of the keys ks, each with a value of vals[k]
ArgMaps(vals) ==
    UNION {{f \in [ks -> UNION {vals[k] : k \in ks}] : \A k \in ks : f[k] \in vals[k]}
           : ks \in SUBSET DOMAIN vals}

TriggerJobArgs ==
    ArgMaps((JobNameKey :> JobNameValues) @@ (ParametersKey :> ParametersValues))

GetBuildStatusArgs == ArgMaps((JobNameKey :> JobNameValues))

GetConsoleLogArgs ==
    ArgMaps((JobNameKey :> JobNameValues) @@ (BuildNumberKey :> BuildNumberValues))

Statuses == {200, 201, 304, 404, 500}

TransportFailure == [kind |-> "transport", err |-> T("dial tcp: connection refused")]

\* the status line arrived and reading the body failed (io.ReadAll)
ReadFailure == [kind |-> "read", err |-> T("unexpected EOF")]

Http(status, body) == [kind |-> "http", status |-> status, body |-> body]

\* response bodies of the build and status endpoints
JsonBodies ==
    {Txt(<<"{", "\"", "result", "\"", ":", "\"", "SUCCESS", "\"", ",",
           "\"", "number", "\"", ":", "7", "}">>),
     Txt(<<"{", "\"", "result", "\"", ":", "null", "}">>)}

NonJsonBodies ==
    {<<>>,
     T("no such job"),
     Txt(<<"{", "\"", "result", "\"", ":">>),
     Txt(<<"<", "html", ">">>)}

Bodies == JsonBodies \cup NonJsonBodies

Backends ==
    {TransportFailure, ReadFailure} \cup {Http(st, b) : st \in Statuses, b \in Bodies}

----------------------------------------------------------------------------
(* Inputs: console logs *)

\* the most runs a console log is drawn with
MaxRuns == 2

\* an ASCII letter, and a letter that takes two bytes in UTF-8
Units == {Run("a", 1, 1, 1), Run("U+00E9", 2, 1, 1)}

RunLengths == {1, MaxLogLen \div 2, MaxLogLen - 1, MaxLogLen, MaxLogLen + 1}

LogRuns == {[u EXCEPT !.n = n] : u \in Units, n \in RunLengths}

RECURSIVE LogsOfRuns(_)
\* the logs of exactly k runs, adjacent runs of different units
LogsOfRuns(k) ==
    IF k = 0 THEN {<<>>}
    ELSE UNION {{Append(l, r) : r \in {x \in LogRuns : l = <<>> \/ x.s # l[Len(l)].s}}
                : l \in LogsOfRuns(k - 1)}

\* console logs: at most MaxRuns runs
ConsoleLogs == UNION {LogsOfRuns(k) : k \in 0..MaxRuns}

ConsoleBackends ==
    {TransportFailure, ReadFailure}
    \cup {Http(st, b) : st \in {200, 304}, b \in ConsoleLogs}
    \cup {Http(st, T("no such build")) : st \in {404, 500}}

----------------------------------------------------------------------------
(* The Bridge: parseToolCall *)

RECURSIVE TrimLeft(_)
TrimLeft(txt) == IF txt # <<>> /\ IsSpace(H(txt)) THEN TrimLeft(Tail(txt)) ELSE txt

RECURSIVE TrimRight(_)
TrimRight(txt) ==
    IF txt # <<>> /\ IsSpace(txt[Len(txt)].s)
    THEN TrimRight(SubSeq(txt, 1, Len(txt) - 1))
    ELSE txt

\* strings.TrimSpace
TrimSpace(txt) == TrimRight(TrimLeft(txt))

\* strings.HasPrefix for a one-chunk prefix
HasPrefix(txt, c) == txt # <<>> /\ H(txt) = c

RECURSIVE ReplaceAll(_, _, _)
\* strings.ReplaceAll of the word old by the word new
ReplaceAll(txt, old, new) ==
    IF txt = <<>> THEN <<>>
    ELSE (IF H(txt) = old THEN T(new) ELSE <<Head(txt)>>)
         \o ReplaceAll(Tail(txt), old, new)

\* True/False/None -> true/false/null
FixLiterals(jsonStr) ==
    ReplaceAll(ReplaceAll(ReplaceAll(jsonStr, "True", "true"),
                          "False", "false"),
               "None", "null")

NoToolCall == [ok |-> FALSE, Name |-> <<>>, Params |-> <<>>]

\* a slip: the {...} part ends at the first '}'
JsonEndAtFirstBrace(rawParams) == Index(rawParams, "}")

\* the end of the {...} part: the last '}'
JsonEnd(rawParams) == LastIndex(rawParams, "}")

\* the steps of parseToolCall from the decoding of the JSON text on
ParseJson(name, params) ==
    IF ~params.ok THEN NoToolCall
    ELSE [ok |-> TRUE, Name |-> name, Params |-> params.m]

\* ... from the extraction of the {...} part on
ParseParams(name, rawParams, start, end) ==
    IF start = 0 \/ end = 0 \/ end <= start THEN NoToolCall
    ELSE ParseJson(name, UnmarshalMap(FixLiterals(SubSeq(rawParams, start, end))))

ParseNameAndParams(name, rawParams) ==
    ParseParams(name, rawParams, Index(rawParams, "{"), JsonEnd(rawParams))

\* ... from the split into the tool name and the rest on
ParseParts(raw, sp) ==
    IF sp = 0 THEN NoToolCall
    ELSE ParseNameAndParams(TrimSpace(SubSeq(raw, 1, sp - 1)),
                            TrimSpace(SubSeq(raw, sp + 1, Len(raw))))

ParseRaw(raw) == ParseParts(raw, Index(raw, " "))

ParseTrimmed(reply) ==
    IF ~HasPrefix(reply, "TOOL:") THEN NoToolCall
    ELSE ParseRaw(TrimSpace(Tail(reply)))

parseToolCall(reply) == ParseTrimmed(TrimSpace(reply))

----------------------------------------------------------------------------
(* The Bridge: the REPL of main *)

Message(role, content) == [Role |-> role, Content |-> content]

SystemPrimer == Message("system", T("You are a DevOps assistant. ..."))

\* fmt.Sprintf("[Tool output]: %v", toolResp.Result): Result is the embedded
\* struct that holds only the _meta map, not the content of the result
ToolOutputMessage == Message("assistant", T("[Tool output]: ") \o T("{map[]}"))

LogAnalysisMessage(result) == Message("assistant", T("[Log analysis]: ") \o result)

\* extractTextFromContent on the one text item of a tool result
extractTextFromContent(result) == TrimSpace(result.text \o T("\n"))

\* a Go value after its trip through the JSON of the MCP transport
OverTheWire(v) == IF v.t = "int" THEN FloatV(v.i, 0) ELSE v

WireArgs(args) == [k \in DOMAIN args |-> OverTheWire(args[k])]

GatewayTools == {"trigger_job", "get_build_status", "get_console_log"}

\* the tool of the Gateway a tool name of the directive text stands for
ToolOf(name) ==
    IF name = T("trigger_job") THEN "trigger_job"
    ELSE IF name = T("get_build_status") THEN "get_build_status"
    ELSE IF name = T("get_console_log") THEN "get_console_log"
    ELSE "unknown"

\* what the handler registered for `tool` answers
Handle(tool, args, backend) ==
    CASE tool = "trigger_job"      -> TriggerJobHandler(args, backend)
      [] tool = "get_build_status" -> GetBuildStatusHandler(args, backend)
      [] tool = "get_console_log"  -> GetConsoleLogHandler(args, backend)

\* ready := make(chan error, 1)
ReadyCap == 1

\* the calls main issues: mcpClient.Initialize, mcpClient.CallTool and
\* oa.CreateChatCompletion
Issued(calls, call) == Append(calls, call)

RECURSIVE Returned(_, _)
\* the calls still out once the oldest `call` has returned
Returned(calls, call) ==
    IF calls = <<>> THEN <<>>
    ELSE IF Head(calls) = call THEN Tail(calls)
    ELSE <<Head(calls)>> \o Returned(Tail(calls), call)

\* main has made the channel and started the goroutine; it waits on <-ready
BridgeStart ==
    /\ pc = "AwaitReady"
    /\ workerPc = "Start"
    /\ startResult = "pending"
    /\ ready = <<>>
    /\ inFlight = <<>>
    /\ history = <<SystemPrimer>>
    /\ linesRead = 0
    /\ histBefore = <<SystemPrimer>>
    /\ llmReply = <<>>
    /\ toolCall = NoToolCall
    /\ toolText = <<>>
    /\ turnCalls = <<>>
    /\ reported = 0

----------------------------------------------------------------------------
(* The Gateway: one tool invocation per step *)

\* JENKINS_MCP_USER, unset or set
Users == {<<>>, T("mcp")}

\* the content of JENKINS_TOKEN_FILE: empty, blank, or a token and a newline
TokenFiles == {<<>>, Txt(<<"\n">>), Txt(<<"s3cret", "\n">>)}

\* jc := &JenkinsClient{User: os.Getenv(...), Token: strings.TrimSpace(...)}
Clients == {[User |-> u, Token |-> TrimSpace(f)] : u \in Users, f \in TokenFiles}

GatewayIdle ==
    /\ jc \in Clients
    /\ gwPc = "idle"
    /\ gwTool = ""
    /\ gwArgs = <<>>
    /\ gwBackend = TransportFailure
    /\ gwRequests = <<>>
    /\ gwResult = NoResult

\* the handler of `tool` runs on args against a backend answering `backend`
Serve(tool, args, backend, out) ==
    /\ gwTool' = tool
    /\ gwArgs' = args
    /\ gwBackend' = backend
    /\ gwRequests' = out.reqs
    /\ gwResult' = out.result
    /\ UNCHANGED jc

Invoke(tool, args, backend, out) ==
    /\ gwPc' = "replied"
    /\ Serve(tool, args, backend, out)
    /\ UNCHANGED brVars

CallTriggerJob ==
    /\ gwPc = "idle"
    /\ \E args \in TriggerJobArgs, backend \in Backends :
        Invoke("trigger_job", args, backend, TriggerJobHandler(args, backend))

CallGetBuildStatus ==
    /\ gwPc = "idle"
    /\ \E args \in GetBuildStatusArgs, backend \in Backends :
        Invoke("get_build_status", args, backend, GetBuildStatusHandler(args, backend))

CallGetConsoleLog ==
    /\ gwPc = "idle"
    /\ \E args \in GetConsoleLogArgs, backend \in ConsoleBackends :
        Invoke("get_console_log", args, backend, GetConsoleLogHandler(args, backend))

\* the reply is on the wire; the server waits for the next request
AwaitRequest ==
    /\ gwPc = "replied"
    /\ gwPc' = "idle"
    /\ gwTool' = ""
    /\ gwArgs' = <<>>
    /\ gwBackend' = TransportFailure
    /\ gwRequests' = <<>>
    /\ gwResult' = NoResult
    /\ UNCHANGED <<jc, brVars>>

GatewayNext == CallTriggerJob \/ CallGetBuildStatus \/ CallGetConsoleLog \/ AwaitRequest

----------------------------------------------------------------------------
(* Inputs of the Bridge *)

UserLines == {T("trigger demo-job"), T("why did build 7 fail?")}

ToolNames == {T("trigger_job"), T("get_build_status"), T("get_console_log"),
              T("analyze_logs"), T("deploy")}

Quoted(txt) == T("\"") \o txt \o T("\"")

RECURSIVE RenderMembers(_)
\* "k": "v", ... for a sequence of <<key, value>> pairs of texts
RenderMembers(pairs) ==
    IF pairs = <<>> THEN <<>>
    ELSE Quoted(Head(pairs)[1]) \o T(":") \o T(" ") \o Quoted(Head(pairs)[2])
         \o (IF Len(pairs) > 1 THEN T(",") \o T(" ") ELSE <<>>)
         \o RenderMembers(Tail(pairs))

\* the JSON object literal of a sequence of string-valued pairs
RenderObject(pairs) == T("{") \o RenderMembers(pairs) \o T("}")

\* the directive text  TOOL: <name> <json>
Directive(name, json) == T("TOOL:") \o T(" ") \o name \o T(" ") \o json

\* the argument mapping a sequence of string-valued pairs (distinct keys) spells
MapOfPairs(pairs) ==
    [k \in {pairs[i][1] : i \in 1..Len(pairs)} |->
        StrV(pairs[CHOOSE i \in 1..Len(pairs) : pairs[i][1] = k][2])]

\* string-valued argument objects, some with True, False or None in a value
StringObjects ==
    {<<>>,
     <<<<JobNameKey, T("demo-job")>>>>,
     <<<<JobNameKey, T("demo-job")>>, <<BuildNumberKey, T("7")>>>>,
     <<<<JobNameKey, Txt(<<"True", "North">>)>>>>,
     <<<<JobNameKey, Txt(<<"deploy-", "None", "-", "False">>)>>>>}

WellFormedDirectives ==
    {Directive(name, RenderObject(o)) : name \in ToolNames, o \in StringObjects}

DemoObject == RenderObject(<<<<JobNameKey, T("demo-job")>>>>)

\* objects with a number or a literal as a value
NumberObjects ==
    {T("{") \o RenderMembers(<<<<JobNameKey, T("demo-job")>>>>) \o T(",") \o T(" ")
       \o Quoted(BuildNumberKey) \o T(":") \o T(" ") \o v \o T("}")
     : v \in {T("7"), Txt(<<"7", ".", "0">>), T("null")}}

NumberDirectives ==
    {Directive(name, o) : name \in {T("get_console_log"), T("analyze_logs")},
                          o \in NumberObjects}

\* the JSON literals, and the capitalizations a model writes them in
Literals == {"true", "false", "null"}

SpellingsOf(lit) ==
    CASE lit = "true"  -> {"true", "True", "TRUE"}
      [] lit = "false" -> {"false", "False", "FALSE"}
      [] lit = "null"  -> {"null", "None", "Null", "NULL"}

WaitKey == T("wait")

\* {"job_name": "demo-job", "wait": <spelling>}
LiteralObject(spelling) ==
    T("{") \o RenderMembers(<<<<JobNameKey, T("demo-job")>>>>) \o T(",") \o T(" ")
    \o Quoted(WaitKey) \o T(":") \o T(" ") \o T(spelling) \o T("}")

LiteralDirective(spelling) == Directive(T("trigger_job"), LiteralObject(spelling))

LiteralDirectives ==
    {LiteralDirective(sp) : sp \in UNION {SpellingsOf(lit) : lit \in Literals}}

\* a JSON object whose braces do not balance
UnbalancedObjects ==
    {SubSeq(DemoObject, 1, Len(DemoObject) - 1),
     DemoObject \o T("}"),
     T("{") \o DemoObject,
     Tail(DemoObject)}

\* a JSON object followed by text that holds no closing brace
GarbageWithoutBrace == {Txt(<<" ", "thanks", "!">>), Txt(<<" ", "{", "more">>)}

\* a JSON object followed by text that holds a closing brace
GarbageWithBrace == {Txt(<<" ", "and", " ", "{", "more", "}">>), Txt(<<" ", "ok", "}">>)}

UnbalancedDirectives ==
    {Directive(T("trigger_job"), o) : o \in UnbalancedObjects}

TrailingGarbageDirectives ==
    {Directive(T("trigger_job"), DemoObject \o g)
     : g \in GarbageWithoutBrace \cup GarbageWithBrace}

MalformedDirectives == UnbalancedDirectives \cup TrailingGarbageDirectives

PlainReplies == {T("Hello, how can I help?"), Txt(<<"TOOL:", " ", "trigger_job">>)}

Replies ==
    WellFormedDirectives \cup NumberDirectives \cup LiteralDirectives
    \cup MalformedDirectives \cup PlainReplies

\* what the backend answers while the Bridge drives the Gateway
BridgeBackends ==
    {TransportFailure, Http(200, <<>>), Http(500, T("no such job")),
     Http(200, Txt(<<"{", "\"", "result", "\"", ":", "null", "}">>))}

BridgeConsoleBackends ==
    {TransportFailure, Http(404, T("no such build")),
     Http(200, Txt(<<"Started", "\n", "Finished: FAILURE", "\n">>)),
     Http(200, <<Run("a", 1, 1, MaxLogLen + 1)>>)}

AnalysisReplies == {T("The build failed because the tests failed.")}

----------------------------------------------------------------------------
(* The Bridge: one step of main per action *)

Say(role, content) == history' = Append(history, Message(role, content))

\* what the REPL keeps between the lines
replVars == <<history, linesRead, histBefore, llmReply, toolCall, toolText,
              turnCalls, reported>>

\* mcpClient.Start(ctx) returned in the goroutine, with nil or an error; it
\* may as well never return
StartReturns ==
    /\ workerPc = "Start"
    /\ \E err \in {"nil", "failed"} : startResult' = err
    /\ workerPc' = "Send"
    /\ UNCHANGED <<gwVars, pc, replVars, ready, inFlight>>

\* a send on ready can proceed: the buffer has room
CanSend(ch) == Len(ch) < ReadyCap

\* ready <- (what Start returned): the goroutine signals and ends
SignalReady ==
    /\ workerPc = "Send"
    /\ CanSend(ready)
    /\ ready' = Append(ready, startResult)
    /\ workerPc' = "Exited"
    /\ UNCHANGED <<gwVars, pc, replVars, startResult, inFlight>>

\* a receive from ready can proceed: a value is buffered
CanReceive(ch) == ch # <<>>

\* main going on to mcpClient.Initialize without the receive from ready
InitializeWithoutReady ==
    /\ pc = "AwaitReady"
    /\ pc' = "Initialize"
    /\ inFlight' = Issued(inFlight, "Initialize")
    /\ UNCHANGED <<gwVars, replVars, startVars>>

\* err := <-ready: log.Fatalf on an error, else mcpClient.Initialize is called
ReceiveReady ==
    /\ pc = "AwaitReady"
    /\ CanReceive(ready)
    /\ ready' = Tail(ready)
    /\ IF Head(ready) # "nil"
       THEN pc' = "Fatal" /\ UNCHANGED inFlight
       ELSE pc' = "Initialize" /\ inFlight' = Issued(inFlight, "Initialize")
    /\ UNCHANGED <<gwVars, replVars, workerPc, startResult>>

\* mcpClient.Initialize returned an error: log.Fatalf
InitializeFails ==
    /\ pc = "Initialize"
    /\ pc' = "Fatal"
    /\ inFlight' = Returned(inFlight, "Initialize")
    /\ UNCHANGED <<gwVars, replVars, startVars>>

\* mcpClient.Initialize returned: the history is set up and the REPL starts
InitializeReturns ==
    /\ pc = "Initialize"
    /\ pc' = "AwaitInput"
    /\ inFlight' = Returned(inFlight, "Initialize")
    /\ UNCHANGED <<gwVars, replVars, startVars>>

\* scanner.Scan() returned a line: the user turn is appended and the model
\* is asked
ReadLine ==
    /\ pc = "AwaitInput"
    /\ linesRead < MaxLines
    /\ \E input \in UserLines : Say("user", input)
    /\ histBefore' = history
    /\ linesRead' = linesRead + 1
    /\ pc' = "ModelCall"
    /\ llmReply' = <<>>
    /\ toolCall' = NoToolCall
    /\ toolText' = <<>>
    /\ turnCalls' = <<>>
    /\ reported' = 0
    /\ gwTool' = ""
    /\ gwArgs' = <<>>
    /\ gwBackend' = TransportFailure
    /\ gwRequests' = <<>>
    /\ gwResult' = NoResult
    /\ inFlight' = Issued(inFlight, "CreateChatCompletion")
    /\ UNCHANGED <<jc, gwPc, startVars>>

\* scanner.Scan() returned false: the loop is left and main returns
EndOfInput ==
    /\ pc = "AwaitInput"
    /\ pc' = "Done"
    /\ UNCHANGED <<gwVars, history, linesRead, histBefore, llmReply, toolCall,
                   toolText, turnCalls, reported, startVars, inFlight>>

\* a call failed: the error is printed and the loop continues
Report ==
    /\ reported' = reported + 1
    /\ pc' = "AwaitInput"

ModelCallFails ==
    /\ pc = "ModelCall"
    /\ Report
    /\ inFlight' = Returned(inFlight, "CreateChatCompletion")
    /\ UNCHANGED <<gwVars, history, linesRead, histBefore, llmReply, toolCall,
                   toolText, turnCalls, startVars>>

\* buildNum := int(toolCall.Params["build_number"].(float64)) does not panic
BuildNumIsFloat(tc) ==
    BuildNumberKey \in DOMAIN tc.Params /\ tc.Params[BuildNumberKey].t = "float64"

LogRequest(tc) ==
    [Name |-> T("get_console_log"),
     Arguments |-> (JobNameKey :> StrV(StringOrZero(tc.Params, JobNameKey)))
                   @@ (BuildNumberKey :> IntV(FloatToInt(tc.Params[BuildNumberKey])))]

\* what main does with the reply and the ToolCall parsed from it
Act(reply, tc) ==
    /\ llmReply' = reply
    /\ toolCall' = tc
    /\ IF ~tc.ok
       THEN /\ Say("assistant", reply)
            /\ pc' = "AwaitInput"
            /\ inFlight' = Returned(inFlight, "CreateChatCompletion")
            /\ UNCHANGED turnCalls
       ELSE IF tc.Name = T("analyze_logs")
       THEN IF BuildNumIsFloat(tc)
            THEN /\ turnCalls' = <<LogRequest(tc)>>
                 /\ pc' = "FetchLogs"
                 /\ inFlight' = Issued(Returned(inFlight, "CreateChatCompletion"),
                                       "CallTool")
                 /\ UNCHANGED history
            ELSE /\ pc' = "Panicked"
                 /\ inFlight' = Returned(inFlight, "CreateChatCompletion")
                 /\ UNCHANGED <<history, turnCalls>>
       ELSE /\ turnCalls' = <<[Name |-> tc.Name, Arguments |-> tc.Params]>>
            /\ pc' = "Dispatch"
            /\ inFlight' = Issued(Returned(inFlight, "CreateChatCompletion"),
                                  "CallTool")
            /\ UNCHANGED history

\* the model replied: the reply is parsed and either appended as the
\* assistant turn or turned into a CallTool request
ModelReplies ==
    /\ pc = "ModelCall"
    /\ \E reply \in Replies : Act(reply, parseToolCall(reply))
    /\ UNCHANGED <<gwVars, linesRead, histBefore, toolText, reported, startVars>>

\* mcpClient.CallTool returned an error: the transport failed or the Gateway
\* has no tool of that name
CallToolFails ==
    /\ pc \in {"Dispatch", "FetchLogs"}
    /\ Report
    /\ inFlight' = Returned(inFlight, "CallTool")
    /\ UNCHANGED <<gwVars, history, linesRead, histBefore, llmReply, toolCall,
                   toolText, turnCalls, startVars>>

\* mcpClient.CallTool returned the result of the tool's handler
CallToolReturns ==
    /\ pc = "Dispatch"
    /\ ToolOf(turnCalls[1].Name) \in GatewayTools
    /\ \E backend \in BridgeBackends :
        LET tool == ToolOf(turnCalls[1].Name)
            args == WireArgs(turnCalls[1].Arguments)
        IN  Serve(tool, args, backend, Handle(tool, args, backend))
    /\ history' = Append(history, ToolOutputMessage)
    /\ pc' = "AwaitInput"
    /\ inFlight' = Returned(inFlight, "CallTool")
    /\ UNCHANGED <<gwPc, linesRead, histBefore, llmReply, toolCall, toolText,
                   turnCalls, reported, startVars>>

\* the get_console_log call of analyze_logs returned a result
FetchLogsReturns ==
    /\ pc = "FetchLogs"
    /\ \E backend \in BridgeConsoleBackends :
        LET args == WireArgs(turnCalls[1].Arguments)
            out  == GetConsoleLogHandler(args, backend)
        IN  /\ Serve("get_console_log", args, backend, out)
            /\ toolText' = extractTextFromContent(out.result)
    /\ pc' = "AnalysisCall"
    /\ inFlight' = Issued(Returned(inFlight, "CallTool"), "CreateChatCompletion")
    /\ UNCHANGED <<gwPc, history, linesRead, histBefore, llmReply, toolCall,
                   turnCalls, reported, startVars>>

AnalysisCallFails ==
    /\ pc = "AnalysisCall"
    /\ Report
    /\ inFlight' = Returned(inFlight, "CreateChatCompletion")
    /\ UNCHANGED <<gwVars, history, linesRead, histBefore, llmReply, toolCall,
                   toolText, turnCalls, startVars>>

AnalysisReturns ==
    /\ pc = "AnalysisCall"
    /\ \E result \in AnalysisReplies : history' = Append(history, LogAnalysisMessage(result))
    /\ pc' = "AwaitInput"
    /\ inFlight' = Returned(inFlight, "CreateChatCompletion")
    /\ UNCHANGED <<gwVars, linesRead, histBefore, llmReply, toolCall, toolText,
                   turnCalls, reported, startVars>>

BridgeNext ==
    \/ StartReturns
    \/ SignalReady
    \/ ReceiveReady
    \/ InitializeFails
    \/ InitializeReturns
    \/ ReadLine
    \/ EndOfInput
    \/ ModelCallFails
    \/ ModelReplies
    \/ CallToolFails
    \/ CallToolReturns
    \/ FetchLogsReturns
    \/ AnalysisCallFails
    \/ AnalysisReturns

----------------------------------------------------------------------------
(* Specifications *)

Init == GatewayIdle /\ BridgeStart

GatewaySpec == Init /\ [][GatewayNext]_vars

\* the Bridge driving the Gateway
Spec == Init /\ [][BridgeNext]_vars

\* the same, with the scheduler running a goroutine that can take a step:
\* the send and the receive on ready happen once they can
LiveSpec == Spec /\ WF_vars(SignalReady) /\ WF_vars(ReceiveReady)

----------------------------------------------------------------------------
(* Claims about the Gateway, checked under GatewaySpec *)

Replied(tool) == gwPc = "replied" /\ gwTool = tool

\* the job_name argument is a non-empty string
HasJobName == IsString(gwArgs, JobNameKey) /\ gwArgs[JobNameKey].s # <<>>

\* the backend answered with a status in 200-299
Answered2xx == gwBackend.kind = "http" /\ gwBackend.status \in 200..299

\* C1: for every job name and parameter mapping, trigger_job sends one
\* request: POST /job/{name}/build without query parameters when the mapping
\* is absent or empty, POST /job/{name}/buildWithParameters with every entry
\* of the mapping as a query parameter (value stringified) otherwise.
C1_TriggerJobRequest ==
    (Replied("trigger_job") /\ HasJobName
        /\ (ParametersKey \in DOMAIN gwArgs => gwArgs[ParametersKey].t = "map"))
    => LET name == gwArgs[JobNameKey].s
           p    == IF ParametersKey \in DOMAIN gwArgs
                   THEN gwArgs[ParametersKey].m ELSE <<>>
       IN  /\ Len(gwRequests) = 1
           /\ gwRequests[1].method = "POST"
           /\ IF DOMAIN p = {}
              THEN /\ gwRequests[1].path = BuildPath(name)
                   /\ DOMAIN gwRequests[1].query = {}
              ELSE /\ gwRequests[1].path = BuildWithParametersPath(name)
                   /\ \A k \in DOMAIN p :
                        /\ k \in DOMAIN gwRequests[1].query
                        /\ gwRequests[1].query[k] = <<Sprint(p[k])>>

\* C3: a tool invocation sends at most one backend request, and when that
\* request fails in transport or is answered with a status outside 200-299
\* the tool result is an error result.
C3_NonSuccessIsError ==
    gwPc = "replied"
    => /\ Len(gwRequests) <= 1
       /\ (Len(gwRequests) = 1 /\ ~Answered2xx) => gwResult.kind = "error"

\* the integer a build_number argument is one of the three spellings of
WholeNumberOf(v) ==
    CASE v.t = "int" -> {v.i}
      [] v.t = "float64" /\ v.e = 0 -> {v.m}
      [] v.t = "string" -> {n \in BuildNumbers : v.s = Itoa(n)}
      [] OTHER -> {}

NonNumericStrings == {T("abc"), <<>>}

\* C7: get_console_log asked for build n as the integer n, the float n.0 or
\* the decimal string of n sends the one request GET /job/{name}/{n}/consoleText;
\* a non-numeric string, a value of another type or no build_number at all
\* gives an error result and no request.
C7_BuildNumberSpellings ==
    Replied("get_console_log")
    => /\ \A n \in (IF BuildNumberKey \in DOMAIN gwArgs
                    THEN WholeNumberOf(gwArgs[BuildNumberKey]) ELSE {}) :
            LET url == ParseURL(ConsolePath(StringOrZero(gwArgs, JobNameKey), n))
            IN  /\ Len(gwRequests) = 1
                /\ gwRequests[1].method = "GET"
                /\ gwRequests[1].path = url.path
                /\ gwRequests[1].query = URLQuery(url.rawQuery)
       /\ (\/ BuildNumberKey \notin DOMAIN gwArgs
           \/ gwArgs[BuildNumberKey].t \notin {"int", "float64", "string"}
           \/ /\ gwArgs[BuildNumberKey].t = "string"
              /\ gwArgs[BuildNumberKey].s \in NonNumericStrings)
          => gwResult.kind = "error" /\ gwRequests = <<>>

\* C7's case happens: build 7 asked for as the float 7.0 of a plain job
C7_Witness ==
    /\ Replied("get_console_log")
    /\ HasJobName
    /\ gwArgs[JobNameKey].s = T("demo-job")
    /\ BuildNumberKey \in DOMAIN gwArgs
    /\ gwArgs[BuildNumberKey] = FloatV(7, 0)
    /\ gwResult.kind = "text"
    /\ Len(gwRequests) = 1
    /\ gwRequests[1].path = Txt(<<"/job/", "demo-job", "/", "7", "/consoleText">>)

\* C8: the console text returned is at most 100000 characters plus the
\* marker; a backend text of at most 100000 characters is returned verbatim,
\* a longer one as its first 100000 characters followed by the marker.
C8_TruncationInCharacters ==
    (Replied("get_console_log") /\ gwResult.kind = "text")
    => LET in  == gwBackend.body
           out == gwResult.text
       IN  /\ CharLen(out) <= MaxLogLen + CharLen(TruncationMarker)
           /\ IF CharLen(in) <= MaxLogLen
              THEN out = in
              ELSE out = TakeChars(in, MaxLogLen) \o TruncationMarker

\* C9 as stated: get_build_status gives a structured payload for a successful
\* answer holding JSON, and the raw response text as a non-error text result
\* both when the backend call fails and when the body is not JSON.
C9_FallbackOnAnyFailure ==
    Replied("get_build_status")
    => IF gwBackend.kind = "http" /\ ~StatusIsError(gwBackend.status)
          /\ gwBackend.body \in JsonBodies
       THEN gwResult.kind = "structured"
       ELSE gwResult.kind = "text"

\* C9 (amended): get_build_status gives a structured payload for a successful
\* answer holding JSON, the raw response text as a non-error text result when
\* the body of a successful answer is not JSON, and an error result when the
\* backend call fails (transport or read failure, status of 400 or more).
C9_BuildStatusResult ==
    Replied("get_build_status")
    => IF gwBackend.kind # "http" \/ gwBackend.status >= 400
       THEN gwResult.kind = "error"
       ELSE IF gwBackend.body \in JsonBodies
       THEN gwResult.kind = "structured"
       ELSE gwResult = [kind |-> "text", text |-> gwBackend.body]

\* C9's cases happen: a successful answer whose body is not JSON
C9_Witness ==
    /\ Replied("get_build_status")
    /\ gwBackend = Http(200, Txt(<<"<", "html", ">">>))
    /\ gwResult = [kind |-> "text", text |-> Txt(<<"<", "html", ">">>)]

\* C10: trigger_job, get_build_status and get_console_log answer a missing,
\* empty or non-string job_name with an error result and send no request.
C10_JobNameRequired ==
    (gwPc = "replied" /\ ~HasJobName)
    => gwResult.kind = "error" /\ gwRequests = <<>>

----------------------------------------------------------------------------
(* Claims about the Bridge, checked under Spec *)

\* the turn of the current line is over
TurnOver == pc \in {"AwaitInput", "Done"} /\ linesRead > 0

\* the history is the one before the line plus these messages
GrewBy(msgs) == history = histBefore \o msgs

UserTurn == history[Len(histBefore) + 1]

\* C2: when the Gateway answers a dispatched tool call with an error result,
\* the turn adds no assistant message: the history is the one before the
\* line plus the one user message.
C2_ErrorResultAddsNoTurn ==
    (TurnOver /\ Len(turnCalls) = 1 /\ toolCall.Name # T("analyze_logs")
        /\ gwResult.kind = "error")
    => /\ Len(history) = Len(histBefore) + 1
       /\ GrewBy(<<UserTurn>>)
       /\ UserTurn.Role = "user"

\* the reply was taken as plain text: no ToolRequest, no Gateway call, and
\* once the turn is over the reply itself is the assistant turn
TakenAsPlainText ==
    /\ ~toolCall.ok
    /\ turnCalls = <<>>
    /\ gwRequests = <<>>
    /\ TurnOver => GrewBy(<<UserTurn, Message("assistant", llmReply)>>)

\* C4 as stated: every directive whose JSON object has unbalanced braces or
\* is followed by trailing garbage yields no ToolRequest, no Gateway call,
\* and the reply unchanged as the assistant turn.
C4_MalformedIsDiscarded ==
    llmReply \in MalformedDirectives => TakenAsPlainText

\* C4 (amended): a directive whose text from the first '{' to the last '}'
\* is not a JSON object (unbalanced braces, or trailing garbage that holds a
\* '}') yields no ToolRequest, no Gateway call, and the reply unchanged as
\* the assistant turn; trailing garbage that holds no '}' is dropped and the
\* directive parses as it does without the garbage.
C4_MalformedSpanIsDiscarded ==
    /\ llmReply \in UnbalancedDirectives
                    \cup {Directive(T("trigger_job"), DemoObject \o g) : g \in GarbageWithBrace}
       => TakenAsPlainText
    /\ llmReply \in {Directive(T("trigger_job"), DemoObject \o g) : g \in GarbageWithoutBrace}
       => toolCall = [ok |-> TRUE, Name |-> T("trigger_job"),
                      Params |-> (JobNameKey :> StrV(T("demo-job")))]

\* C4's case happens: a directive with one closing brace too many ended up
\* as the assistant turn
C4_Witness ==
    /\ TurnOver
    /\ llmReply = Directive(T("trigger_job"), DemoObject \o T("}"))
    /\ history[Len(history)] = Message("assistant", llmReply)

\* C5: a well-formed directive TOOL: <name> <JSON object of string values>
\* parses to the ToolRequest of that name whose argument mapping is exactly
\* the object's key/value pairs.
C5_WellFormedParsesExactly ==
    \A name \in ToolNames, o \in StringObjects :
        llmReply = Directive(name, RenderObject(o))
        => toolCall = [ok |-> TRUE, Name |-> name, Params |-> MapOfPairs(o)]

\* main has stopped
Terminated == pc \in {"Done", "Panicked"}

\* C6: whatever happens in a turn, the REPL goes back to reading input, and
\* it stops only when the input ends; a failure is reported once.
C6_StopsOnlyAtEndOfInput ==
    /\ Terminated => pc = "Done"
    /\ reported <= 1

\* C11: a directive whose JSON object spells a literal as True, False or None,
\* or in another capitalization of true, false or null, parses to exactly the
\* ToolRequest of the same directive written with true, false or null
C11_LiteralSpellingsParseAlike ==
    \A lit \in Literals : \A spelling \in SpellingsOf(lit) :
        (pc # "ModelCall" /\ llmReply = LiteralDirective(spelling))
            => toolCall = parseToolCall(LiteralDirective(lit))

\* C12: a backend request carries HTTP basic-auth credentials if and only if
\* both the username and the token are configured (non-empty); if either one
\* is empty the request is sent unauthenticated
C12_AuthIffBothConfigured ==
    \A i \in 1..Len(gwRequests) :
        gwRequests[i].auth.basic <=> (jc.User # <<>> /\ jc.Token # <<>>)

\* the tool names the Bridge is to recognize in a directive
RecognizedNames ==
    {T("trigger_job"), T("get_build_status"), T("get_console_log"), T("analyze_logs")}

\* C13: the Bridge sends the Gateway only directives whose tool name is in
\* the fixed recognized set (analyze_logs goes out as get_console_log); a
\* parsed directive with any other tool name causes no Gateway call and the
\* model's reply is appended verbatim as the assistant turn
C13_OnlyRecognizedNamesDispatched ==
    /\ \A i \in 1..Len(turnCalls) : ToolOf(turnCalls[i].Name) \in GatewayTools
    /\ (toolCall.ok /\ toolCall.Name \notin RecognizedNames)
        => /\ turnCalls = <<>>
           /\ TurnOver => GrewBy(<<UserTurn, Message("assistant", llmReply)>>)

\* the goroutine has sent what Start returned, and it was nil
ReadySignalled == workerPc = "Exited" /\ startResult = "nil"

\* C14: in the Bridge no request (Initialize, tool call or model call) is
\* issued before the goroutine starting the transport has signalled on
\* ready; once Start has returned, main does not wait on ready forever; and
\* at every point at most one of main's calls is out, the Gateway in turn
\* sending at most one backend request for it
C14_ReadyThenOneCallAtATime ==
    /\ [](/\ pc # "AwaitReady" => workerPc = "Exited"
          /\ inFlight # <<>> => ReadySignalled)
    /\ (workerPc = "Send") ~> (pc # "AwaitReady")
    /\ [](Len(inFlight) <= 1 /\ Len(gwRequests) <= 1)

\* a tool call is out after the startup went through the channel
C14_Witness ==
    /\ ReadySignalled
    /\ ready = <<>>
    /\ pc = "FetchLogs"
    /\ inFlight = <<"CallTool">>

====
